---- MODULE Spec2Model ----
(***************************************************************************)
(* Model of src/translate.py: the line-accumulating chunker _chunk_text,   *)
(* the per-chunk driver _translate_chunk, the single-language pipeline    *)
(* translate and the batch orchestrator translate_batch.                   *)
(*                                                                         *)
(* Text is a sequence of characters; a character is a one-token string     *)
(* ("a", "LF" for \n, "CR" for \r, "SP" for a blank, "BT" for a backtick). *)
(* The source fixes MAX_CHARS_PER_CHUNK = 4500; the chunker takes the      *)
(* budget as a parameter, and the model lets the configured budget range   *)
(* over small positive values so that multi-chunk documents are short.     *)
(***************************************************************************)
EXTENDS Integers, Sequences, FiniteSets, TLC

VARIABLES
    pc,                \* control point of the running call
    entry,             \* the call made by the user: function and arguments
    files,             \* the file system: path -> content
    style,             \* how the remote capability dresses its replies
    max_chars,         \* the chunk budget (MAX_CHARS_PER_CHUNK / parameter)
    text,              \* argument of a direct _chunk_text call
    blocks,            \* text-line counts of the SRT blocks making up text
    li,                \* translate_batch: index of the current language
    srt_path,          \* translate: argument
    target_lang,       \* translate: argument
    original_text,     \* translate: local
    chunks,            \* translate: local / result of _chunk_text
    i,                 \* translate: 1-based index of the current chunk
    translated_chunks, \* translate: local
    e,                 \* translate: the exception caught by the handler
    raised,            \* the exception that propagated out of the call
    result,            \* <<the path translate returned>>, <<>> before
    trace,             \* requests, delays and writes of the current run
    runs,              \* languages translate was invoked for, in order
    response           \* response to a direct _translate_chunk call

vars == <<pc, entry, files, style, max_chars, text, blocks, li, srt_path,
          target_lang, original_text, chunks, i, translated_chunks, e,
          raised, result, trace, runs, response>>

----------------------------------------------------------------------------
(* Bounds *)

MaxTextLen == 5       \* longest text handed directly to _chunk_text
MaxBudget == 9        \* largest budget handed directly to _chunk_text
MaxBlocks == 2        \* most SRT blocks in a generated SRT document
MaxTextLines == 2     \* most text lines in one generated SRT block
MaxFileLen == 3       \* longest content of the input file of a pipeline run
MaxConfigBudget == 2  \* largest configured budget of a pipeline run
MaxBodyLen == 2       \* longest body of a dressed reply to a direct driver call
MaxRawLen == 6        \* longest undressed reply to a direct driver call
MaxMainFileLen == 2   \* longest content of the input file of a command-line run
MaxFairFileLen == 2   \* longest content of the input file of a fair run

----------------------------------------------------------------------------
(* Characters and sequences *)

\* the line boundaries of str.splitlines
LineBreaks == {"LF", "CR", "VT", "FF", "FS", "GS", "RS", "NEL", "LS", "PS"}

ChunkAlphabet == {"a", "LF", "CR"}

RECURSIVE Flatten(_)
Flatten(ss) == IF ss = <<>> THEN <<>> ELSE Head(ss) \o Flatten(Tail(ss))

SeqsUpTo(S, n) == UNION {[1..k -> S] : k \in 0..n}

----------------------------------------------------------------------------
(* _chunk_text *)

RECURSIVE SplitFrom(_, _, _, _)
SplitFrom(s, k, cur, acc) ==
    IF k > Len(s)
    THEN IF cur # <<>> THEN Append(acc, cur) ELSE acc
    ELSE IF s[k] = "CR" /\ k < Len(s) /\ s[k + 1] = "LF"
    THEN SplitFrom(s, k + 2, <<>>, Append(acc, cur \o <<"CR", "LF">>))
    ELSE IF s[k] \in LineBreaks
    THEN SplitFrom(s, k + 1, <<>>, Append(acc, Append(cur, s[k])))
    ELSE SplitFrom(s, k + 1, Append(cur, s[k]), acc)

\* text.splitlines(keepends=True)
splitlines(s) == SplitFrom(s, 1, <<>>, <<>>)

\* ChunkStep with the test `len(current) > max_chars`: the line is not counted
ChunkStepIgnoresLine(st, line, budget) ==
    LET flushed == IF Len(st.current) > budget
                   THEN [chunks |-> Append(st.chunks, st.current),
                         current |-> <<>>]
                   ELSE st
    IN [chunks |-> flushed.chunks, current |-> flushed.current \o line]

\* ChunkStep with the test `>=`: a line that fits exactly is pushed out
ChunkStepEager(st, line, budget) ==
    LET flushed == IF Len(st.current) + Len(line) >= budget
                   THEN [chunks |-> Append(st.chunks, st.current),
                         current |-> <<>>]
                   ELSE st
    IN [chunks |-> flushed.chunks, current |-> flushed.current \o line]

\* the body of the for loop: flush when the line would not fit, then append
ChunkStep(st, line, budget) ==
    LET flushed == IF Len(st.current) + Len(line) > budget
                   THEN [chunks |-> Append(st.chunks, st.current),
                         current |-> <<>>]
                   ELSE st
    IN [chunks |-> flushed.chunks, current |-> flushed.current \o line]

\* ChunkFlush without the final flush: the last buffer is lost
ChunkFlushNoTail(st) == st.chunks

\* ChunkFlush without the `if current:` test
ChunkFlushAlways(st) == Append(st.chunks, st.current)

\* after the loop: flush a non-empty buffer
ChunkFlush(st) ==
    IF st.current # <<>> THEN Append(st.chunks, st.current) ELSE st.chunks

RECURSIVE ChunkLoop(_, _, _)
ChunkLoop(lines, st, budget) ==
    IF lines = <<>> THEN st
    ELSE ChunkLoop(Tail(lines), ChunkStep(st, Head(lines), budget), budget)

_chunk_text(t, budget) ==
    ChunkFlush(ChunkLoop(splitlines(t), [chunks |-> <<>>, current |-> <<>>],
                         budget))

----------------------------------------------------------------------------
(* SRT documents: sequence-number line, timestamp line, text lines, blank  *)
(* line.  "1" stands for a sequence number and "T" for a timestamp range.  *)

RECURSIVE Repeat(_, _)
Repeat(s, n) == IF n = 0 THEN <<>> ELSE s \o Repeat(s, n - 1)

SrtBlock(nText) ==
    <<"1", "LF">> \o <<"T", "LF">> \o Repeat(<<"a", "LF">>, nText) \o <<"LF">>

RECURSIVE SrtDoc(_)
SrtDoc(bs) == IF bs = <<>> THEN <<>> ELSE SrtBlock(Head(bs)) \o SrtDoc(Tail(bs))

BlockShapes == SeqsUpTo(1..MaxTextLines, MaxBlocks) \ {<<>>}

----------------------------------------------------------------------------
(* Configuration *)

SLEEP_BETWEEN_CALLS_TENTHS == 5    \* SLEEP_BETWEEN_CALLS = 0.5 s, in tenths
RETRY_SLEEP_TENTHS == 50           \* time.sleep(5), in tenths of a second

languages == <<"en", "es-419", "es-ES", "pt-BR", "pt-PT", "fr", "de", "ar",
               "hi", "bn", "ur", "id", "vi", "tr", "zh-Hans">>

secondary_langs == <<"it", "ja", "ko", "th", "pl", "nl">>

\* all_langs with the two lists concatenated the other way round
all_langs_secondary_first == secondary_langs \o languages

all_langs == languages \o secondary_langs

None == "None"        \* Python's None

----------------------------------------------------------------------------
(* str.strip, str.replace, str.join *)

Whitespace == {"SP", "TAB", "LF", "CR", "VT", "FF", "FS", "GS", "RS", "US",
               "NEL", "LS", "PS"}

RECURSIVE LStrip(_)
LStrip(s) == IF s # <<>> /\ Head(s) \in Whitespace THEN LStrip(Tail(s)) ELSE s

RECURSIVE RStrip(_)
RStrip(s) ==
    IF s # <<>> /\ s[Len(s)] \in Whitespace
    THEN RStrip(SubSeq(s, 1, Len(s) - 1))
    ELSE s

\* s.strip()
Strip(s) == RStrip(LStrip(s))

StartsWith(s, old) == Len(old) <= Len(s) /\ SubSeq(s, 1, Len(old)) = old

\* s.replace(old, new) for a non-empty old: leftmost, non-overlapping
RECURSIVE Replace(_, _, _)
Replace(s, old, new) ==
    IF s = <<>> THEN <<>>
    ELSE IF StartsWith(s, old)
    THEN new \o Replace(SubSeq(s, Len(old) + 1, Len(s)), old, new)
    ELSE <<Head(s)>> \o Replace(Tail(s), old, new)

\* sep.join(parts)
RECURSIVE Join(_, _)
Join(sep, parts) ==
    IF parts = <<>> THEN <<>>
    ELSE IF Len(parts) = 1 THEN Head(parts)
    ELSE Head(parts) \o sep \o Join(sep, Tail(parts))

Fence == <<"BT", "BT", "BT">>
FenceSrt == Fence \o <<"s", "r", "t">>

----------------------------------------------------------------------------
(* The remote capability and _translate_chunk *)

Styles == {"plain", "fenced_srt"}

\* the content of a reply to a chunk, dressed the way the remote chose:
\* the bare text, or the text in a fenced srt block between blanks
Reply(st, chunk) ==
    IF st = "plain" THEN chunk
    ELSE <<"SP">> \o FenceSrt \o <<"LF">> \o chunk \o Fence \o <<"LF">>

\* a response of client.chat.completions.create, or the error it raises:
\*   "raise"       the request itself fails with `error`
\*   "no_response" the response is None
\*   "no_choices"  response.choices is empty or None
\*   "no_message"  response.choices[0].message is None
\*   "non_str"     message.content is truthy but not a str
\*   "content"     message.content is the str `content` (None counts as "")
Resp(kind, error, content) ==
    [kind |-> kind, error |-> error, content |-> content]

\* no direct _translate_chunk call has received a response
NoResponse == Resp("none", "", <<>>)

\* what client.chat.completions.create can do for one request
Responses(st, chunk) ==
    { Resp("raise", "RemoteCallError", <<>>),
      Resp("no_choices", "", <<>>),
      Resp("content", "", <<>>),
      Resp("content", "", Reply(st, chunk)) }

\* Clean without the final strip()
CleanNoFinalStrip(content) ==
    Replace(Replace(Strip(content), FenceSrt, <<>>), Fence, <<>>)

\* content.strip().replace(FENCE+"srt", "").replace(FENCE, "").strip()
Clean(content) == Strip(Replace(Replace(Strip(content), FenceSrt, <<>>),
                                Fence, <<>>))

\* _translate_chunk wrapping a failed request in its own ValueError
_translate_chunk_masks_error(resp) ==
    IF resp.kind = "content" /\ resp.content # <<>>
    THEN [ok |-> TRUE, value |-> Clean(resp.content)]
    ELSE [ok |-> FALSE, err |-> "ValueError"]

\* outcome of _translate_chunk for the response its one request received
_translate_chunk(resp) ==
    IF resp.kind = "raise"
    THEN [ok |-> FALSE, err |-> resp.error]
    ELSE IF resp.kind = "content" /\ resp.content # <<>>
    THEN [ok |-> TRUE, value |-> Clean(resp.content)]
    ELSE [ok |-> FALSE, err |-> "ValueError"]

----------------------------------------------------------------------------
(* Files and paths.  A path is a directory and a file name; the name is    *)
(* the sequence of its dot-separated parts.                                *)

InputPath == [dir |-> "videos", name |-> <<"movie", "srt">>]

\* further input paths: no extension, and a dotted name in another directory
OtherInputPaths ==
    { [dir |-> "", name |-> <<"movie">>],
      [dir |-> "sub", name |-> <<"my", "movie", "vtt">>] }

\* srt_path before translate is called
NoPath == [dir |-> "", name |-> <<>>]

\* TextIOWrapper newline=None on read: \r\n and \r become \n
RECURSIVE UniversalNewlines(_)
UniversalNewlines(s) ==
    IF s = <<>> THEN <<>>
    ELSE IF Head(s) = "CR"
    THEN <<"LF">> \o UniversalNewlines(
             IF Len(s) > 1 /\ s[2] = "LF" THEN Tail(Tail(s)) ELSE Tail(s))
    ELSE <<Head(s)>> \o UniversalNewlines(Tail(s))

_read_file(fs, path) == UniversalNewlines(fs[path])

\* open(path, "w") truncates or creates, then writes (POSIX: no translation)
_write_file(fs, path, t) ==
    [p \in DOMAIN fs \cup {path} |-> IF p = path THEN t ELSE fs[p]]

\* Stem keeping the suffix
StemKeepsSuffix(name) == name

\* PurePath.stem: the name without its last suffix
Stem(name) ==
    IF Len(name) > 1 /\ name[Len(name)] # ""
       /\ ~(Len(name) = 2 /\ name[1] = "")
    THEN SubSeq(name, 1, Len(name) - 1)
    ELSE name

\* OutputPath without the language code in the name
OutputPathNoLang(path, lang) ==
    [dir |-> path.dir, name |-> Stem(path.name) \o <<"srt">>]

\* input_path.with_name(f"{target_lang}.{input_path.stem}.srt")
OutputPath(path, lang) ==
    [dir |-> path.dir, name |-> <<lang>> \o Stem(path.name) \o <<"srt">>]

----------------------------------------------------------------------------
(* State machine *)

FileAlphabet == {"a", "LF", "CR"}
FileTexts == SeqsUpTo(FileAlphabet, MaxFileLen)

NoFiles == [p \in {} |-> <<>>]

Event(ev, chunk, out, tenths) ==
    [ev |-> ev, chunk |-> chunk, out |-> out, tenths |-> tenths]

Request(k, out) == Event("request", k, out, 0)
Sleep(k, tenths) == Event("sleep", k, "", tenths)
Write(k) == Event("write", k, "", 0)
Read(k) == Event("read", k, "", 0)

\* Falsy testing `target_lang is None`: the empty string passes
FalsyNoneOnly(lang) == lang = None

Falsy(lang) == lang = None \/ lang = ""

\* the locals of a call of translate before its first statement
FreshFrame ==
    /\ original_text = <<>>
    /\ chunks = <<>>
    /\ i = 0
    /\ translated_chunks = <<>>
    /\ e = None
    /\ result = <<>>
    /\ trace = <<>>

IdleChunker == text = <<>> /\ blocks = <<>>

\* translate was called by translate_batch
InBatch == entry.fn \in {"translate_batch", "main"}

Entries ==
    {[fn |-> "translate_batch", path |-> InputPath, lang |-> None]}
    \cup {[fn |-> "translate", path |-> InputPath, lang |-> l] :
             l \in {None, "", "fr"}}
    \cup {[fn |-> "translate", path |-> p, lang |-> "fr"] :
             p \in OtherInputPaths}

Init ==
    /\ pc = "call"
    /\ entry \in Entries
    /\ files \in {NoFiles} \cup {[p \in {entry.path} |-> t] : t \in FileTexts}
    /\ style \in Styles
    /\ max_chars \in 1..MaxConfigBudget
    /\ IdleChunker
    /\ li = 0
    /\ srt_path = NoPath
    /\ target_lang = None
    /\ FreshFrame
    /\ raised = None
    /\ runs = <<>>
    /\ response = NoResponse

\* translate(srt_path, target_lang) called by the user
CallTranslate ==
    /\ pc = "call"
    /\ entry.fn = "translate"
    /\ pc' = "translate"
    /\ srt_path' = entry.path
    /\ target_lang' = entry.lang
    /\ runs' = Append(runs, entry.lang)
    /\ UNCHANGED <<response, entry, files, style, max_chars, text, blocks, li,
                   original_text, chunks, i, translated_chunks, e, raised,
                   result, trace>>

\* translate_batch(file_path) called by the user
CallTranslateBatch ==
    /\ pc = "call"
    /\ entry.fn = "translate_batch"
    /\ pc' = "batch_loop"
    /\ UNCHANGED <<response, entry, files, style, max_chars, text, blocks, li, srt_path,
                   target_lang, original_text, chunks, i, translated_chunks,
                   e, raised, result, trace, runs>>

\* for lang in all_langs: translate(file_path, lang)
BatchNext ==
    /\ pc = "batch_loop"
    /\ li < Len(all_langs)
    /\ li' = li + 1
    /\ pc' = "translate"
    /\ srt_path' = entry.path
    /\ target_lang' = all_langs[li + 1]
    /\ runs' = Append(runs, all_langs[li + 1])
    /\ original_text' = <<>>
    /\ chunks' = <<>>
    /\ i' = 0
    /\ translated_chunks' = <<>>
    /\ e' = None
    /\ result' = <<>>
    /\ trace' = <<>>
    /\ UNCHANGED <<response, entry, files, style, max_chars, text, blocks, raised>>

\* the for loop of translate_batch is exhausted
BatchDone ==
    /\ pc = "batch_loop"
    /\ li = Len(all_langs)
    /\ pc' = "done"
    /\ UNCHANGED <<response, entry, files, style, max_chars, text, blocks, li, srt_path,
                   target_lang, original_text, chunks, i, translated_chunks,
                   e, raised, result, trace, runs>>

\* if not os.path.exists(srt_path): raise FileNotFoundError
TranslateFileNotFound ==
    /\ pc = "translate"
    /\ srt_path \notin DOMAIN files
    /\ pc' = "raised"
    /\ raised' = "FileNotFoundError"
    /\ UNCHANGED <<response, entry, files, style, max_chars, text, blocks, li, srt_path,
                   target_lang, original_text, chunks, i, translated_chunks,
                   e, result, trace, runs>>

\* if not target_lang: raise ValueError
TranslateNoLang ==
    /\ pc = "translate"
    /\ srt_path \in DOMAIN files
    /\ Falsy(target_lang)
    /\ pc' = "raised"
    /\ raised' = "ValueError"
    /\ UNCHANGED <<response, entry, files, style, max_chars, text, blocks, li, srt_path,
                   target_lang, original_text, chunks, i, translated_chunks,
                   e, result, trace, runs>>

\* original_text = _read_file(...); chunks = _chunk_text(...)
TranslateRead ==
    /\ pc = "translate"
    /\ srt_path \in DOMAIN files
    /\ ~Falsy(target_lang)
    /\ original_text' = _read_file(files, srt_path)
    /\ chunks' = _chunk_text(_read_file(files, srt_path), max_chars)
    /\ translated_chunks' = <<>>
    /\ i' = 1
    /\ trace' = Append(trace, Read(0))
    /\ pc' = "for_chunk"
    /\ UNCHANGED <<response, entry, files, style, max_chars, text, blocks, li, srt_path,
                   target_lang, e, raised, result, runs>>

\* try: translated = _translate_chunk(...); translated_chunks.append(...)
FirstAttemptOk ==
    /\ pc = "for_chunk"
    /\ i <= Len(chunks)
    /\ \E resp \in Responses(style, chunks[i]) :
          LET out == _translate_chunk(resp) IN
          /\ out.ok
          /\ translated_chunks' = Append(translated_chunks, out.value)
          /\ trace' = Append(trace, Request(i, "ok"))
    /\ pc' = "pace"
    /\ UNCHANGED <<response, entry, files, style, max_chars, text, blocks, li, srt_path,
                   target_lang, original_text, chunks, i, e, raised, result,
                   runs>>

\* except Exception as e:
FirstAttemptFail ==
    /\ pc = "for_chunk"
    /\ i <= Len(chunks)
    /\ \E resp \in Responses(style, chunks[i]) :
          LET out == _translate_chunk(resp) IN
          /\ ~out.ok
          /\ e' = out.err
          /\ trace' = Append(trace, Request(i, out.err))
    /\ pc' = "except"
    /\ UNCHANGED <<response, entry, files, style, max_chars, text, blocks, li, srt_path,
                   target_lang, original_text, chunks, i, translated_chunks,
                   raised, result, runs>>

\* RetrySleep without the sleep: the retry follows the failure at once
RetrySleepSkipped ==
    /\ pc = "except"
    /\ pc' = "retry"
    /\ UNCHANGED <<response, entry, files, style, max_chars, text, blocks, li, srt_path,
                   target_lang, original_text, chunks, i, translated_chunks,
                   e, raised, result, trace, runs>>

\* time.sleep(5) in the handler
RetrySleep ==
    /\ pc = "except"
    /\ trace' = Append(trace, Sleep(i, RETRY_SLEEP_TENTHS))
    /\ pc' = "retry"
    /\ UNCHANGED <<response, entry, files, style, max_chars, text, blocks, li, srt_path,
                   target_lang, original_text, chunks, i, translated_chunks,
                   e, raised, result, runs>>

\* the second _translate_chunk call returns
RetryOk ==
    /\ pc = "retry"
    /\ \E resp \in Responses(style, chunks[i]) :
          LET out == _translate_chunk(resp) IN
          /\ out.ok
          /\ translated_chunks' = Append(translated_chunks, out.value)
          /\ trace' = Append(trace, Request(i, "ok"))
    /\ pc' = "pace"
    /\ UNCHANGED <<response, entry, files, style, max_chars, text, blocks, li, srt_path,
                   target_lang, original_text, chunks, i, e, raised, result,
                   runs>>

\* RetryFail re-raising the exception the handler caught (`raise e`)
RetryFailRaisesFirst ==
    /\ pc = "retry"
    /\ \E resp \in Responses(style, chunks[i]) :
          LET out == _translate_chunk(resp) IN
          /\ ~out.ok
          /\ raised' = e
          /\ trace' = Append(trace, Request(i, out.err))
    /\ pc' = "raised"
    /\ UNCHANGED <<response, entry, files, style, max_chars, text, blocks, li, srt_path,
                   target_lang, original_text, chunks, i, translated_chunks,
                   e, result, runs>>

\* RetryFail with translate_batch catching the error and going on with the
\* next language
RetryFailIsolated ==
    /\ pc = "retry"
    /\ \E resp \in Responses(style, chunks[i]) :
          LET out == _translate_chunk(resp) IN
          /\ ~out.ok
          /\ raised' = out.err
          /\ trace' = Append(trace, Request(i, out.err))
    /\ pc' = IF InBatch THEN "batch_loop" ELSE "raised"
    /\ UNCHANGED <<response, entry, files, style, max_chars, text, blocks, li, srt_path,
                   target_lang, original_text, chunks, i, translated_chunks,
                   e, result, runs>>

\* RetryFail with a handler that keeps retrying until the call succeeds
RetryFailRetries ==
    /\ pc = "retry"
    /\ \E resp \in Responses(style, chunks[i]) :
          LET out == _translate_chunk(resp) IN
          /\ ~out.ok
          /\ e' = out.err
          /\ trace' = Append(trace, Request(i, out.err))
    /\ pc' = "except"
    /\ UNCHANGED <<response, entry, files, style, max_chars, text, blocks, li, srt_path,
                   target_lang, original_text, chunks, i, translated_chunks,
                   raised, result, runs>>

\* the second _translate_chunk call raises inside the handler: it propagates
RetryFail ==
    /\ pc = "retry"
    /\ \E resp \in Responses(style, chunks[i]) :
          LET out == _translate_chunk(resp) IN
          /\ ~out.ok
          /\ raised' = out.err
          /\ trace' = Append(trace, Request(i, out.err))
    /\ pc' = "raised"
    /\ UNCHANGED <<response, entry, files, style, max_chars, text, blocks, li, srt_path,
                   target_lang, original_text, chunks, i, translated_chunks,
                   e, result, runs>>

\* Pace without the sleep
PaceSkipped ==
    /\ pc = "pace"
    /\ i' = i + 1
    /\ pc' = "for_chunk"
    /\ UNCHANGED <<response, entry, files, style, max_chars, text, blocks, li,
                   srt_path, target_lang, original_text, chunks,
                   translated_chunks, e, raised, result, trace, runs>>

\* time.sleep(SLEEP_BETWEEN_CALLS), then the next iteration
Pace ==
    /\ pc = "pace"
    /\ trace' = Append(trace, Sleep(i, SLEEP_BETWEEN_CALLS_TENTHS))
    /\ i' = i + 1
    /\ pc' = "for_chunk"
    /\ UNCHANGED <<response, entry, files, style, max_chars, text, blocks, li, srt_path,
                   target_lang, original_text, chunks, translated_chunks, e,
                   raised, result, runs>>

\* cleaned_chunks: every translated chunk stripped
RECURSIVE StripAll(_)
StripAll(cs) ==
    IF cs = <<>> THEN <<>> ELSE <<Strip(Head(cs))>> \o StripAll(Tail(cs))

\* FinalText joining with the empty string
FinalTextNoSeparator(tcs) == Join(<<>>, StripAll(tcs))

\* final_text = "\n".join(cleaned_chunks)
FinalText(tcs) == Join(<<"LF">>, StripAll(tcs))

\* the loop is exhausted: rebuild, write the output file, return its path
Rebuild ==
    /\ pc = "for_chunk"
    /\ i > Len(chunks)
    /\ files' = _write_file(files, OutputPath(srt_path, target_lang),
                            FinalText(translated_chunks))
    /\ trace' = Append(trace, Write(0))
    /\ result' = <<OutputPath(srt_path, target_lang)>>
    /\ pc' = IF InBatch THEN "batch_loop" ELSE "returned"
    /\ UNCHANGED <<response, entry, style, max_chars, text, blocks, li, srt_path,
                   target_lang, original_text, chunks, i, translated_chunks,
                   e, raised, runs>>

Next ==
    \/ CallTranslate
    \/ CallTranslateBatch
    \/ BatchNext
    \/ BatchDone
    \/ TranslateFileNotFound
    \/ TranslateNoLang
    \/ TranslateRead
    \/ FirstAttemptOk
    \/ FirstAttemptFail
    \/ RetrySleep
    \/ RetryOk
    \/ RetryFail
    \/ Pace
    \/ Rebuild

Spec == Init /\ [][Next]_vars

\* Spec started one step earlier: the process is up, the file system, the
\* remote and the call to come are not fixed yet
InitIdle ==
    /\ pc = "idle"
    /\ entry = [fn |-> "idle", path |-> NoPath, lang |-> None]
    /\ files = NoFiles
    /\ style = "plain"
    /\ max_chars = 1
    /\ IdleChunker
    /\ li = 0
    /\ srt_path = NoPath
    /\ target_lang = None
    /\ FreshFrame
    /\ raised = None
    /\ runs = <<>>
    /\ response = NoResponse

\* the environment settles into one of the states of Init (short files,
\* replies that come back bare)
Arrange ==
    /\ pc = "idle"
    /\ pc' = "call"
    /\ entry' \in Entries
    /\ files' \in {NoFiles}
                  \cup {[p \in {entry'.path} |-> t] :
                           t \in SeqsUpTo(FileAlphabet, MaxFairFileLen)}
    /\ style' = "plain"
    /\ max_chars' \in 1..MaxConfigBudget
    /\ UNCHANGED <<response, text, blocks, li, srt_path, target_lang,
                   original_text, chunks, i, translated_chunks, e, raised,
                   result, trace, runs>>

NextFair == Arrange \/ Next

\* every call and every sleep returns: a step that can be taken is taken
FairSpec == InitIdle /\ [][NextFair]_vars /\ WF_vars(NextFair)

----------------------------------------------------------------------------
(* The command line: python translate.py input.srt [lang] *)

\* the arguments: path is sys.argv[1] (NoPath when absent), lang is
\* sys.argv[2] (None when absent)
MainEntries ==
    { [fn |-> "main", path |-> NoPath, lang |-> None],
      [fn |-> "main", path |-> InputPath, lang |-> None],
      [fn |-> "main", path |-> InputPath, lang |-> "fr"] }

InitMain ==
    /\ pc = "main"
    /\ entry \in MainEntries
    /\ files \in {NoFiles}
                 \cup {[p \in {InputPath} |-> t] :
                          t \in SeqsUpTo(FileAlphabet, MaxMainFileLen)}
    /\ style \in Styles
    /\ max_chars \in 1..MaxConfigBudget
    /\ IdleChunker
    /\ li = 0
    /\ srt_path = NoPath
    /\ target_lang = None
    /\ FreshFrame
    /\ raised = None
    /\ runs = <<>>
    /\ response = NoResponse

\* if len(sys.argv) < 2: print usage; sys.exit(1)
MainUsage ==
    /\ pc = "main"
    /\ entry.path = NoPath
    /\ raised' = "SystemExit(1)"
    /\ pc' = "raised"
    /\ UNCHANGED <<response, entry, files, style, max_chars, text, blocks, li,
                   srt_path, target_lang, original_text, chunks, i,
                   translated_chunks, e, result, trace, runs>>

\* file_path = sys.argv[1]; translate_batch(file_path)
MainBatch ==
    /\ pc = "main"
    /\ entry.path # NoPath
    /\ pc' = "batch_loop"
    /\ UNCHANGED <<response, entry, files, style, max_chars, text, blocks, li,
                   srt_path, target_lang, original_text, chunks, i,
                   translated_chunks, e, raised, result, trace, runs>>

NextMain ==
    \/ MainUsage
    \/ MainBatch
    \/ BatchNext
    \/ BatchDone
    \/ TranslateFileNotFound
    \/ TranslateRead
    \/ FirstAttemptOk
    \/ FirstAttemptFail
    \/ RetrySleep
    \/ RetryOk
    \/ RetryFail
    \/ Pace
    \/ Rebuild

SpecMain == InitMain /\ [][NextMain]_vars

----------------------------------------------------------------------------
(* Direct calls of _chunk_text(text, max_chars) *)

InitChunk ==
    /\ pc = "chunk_call"
    /\ entry = [fn |-> "_chunk_text", path |-> InputPath, lang |-> None]
    /\ \/ text \in SeqsUpTo(ChunkAlphabet, MaxTextLen) /\ blocks = <<>>
       \/ blocks \in BlockShapes /\ text = SrtDoc(blocks)
    /\ max_chars \in 1..MaxBudget
    /\ files = NoFiles
    /\ style = "plain"
    /\ li = 0
    /\ srt_path = NoPath
    /\ target_lang = None
    /\ FreshFrame
    /\ raised = None
    /\ runs = <<>>
    /\ response = NoResponse

ChunkCall ==
    /\ pc = "chunk_call"
    /\ chunks' = _chunk_text(text, max_chars)
    /\ pc' = "chunk_done"
    /\ UNCHANGED <<response, entry, files, style, max_chars, text, blocks, li, srt_path,
                   target_lang, original_text, i, translated_chunks, e,
                   raised, result, trace, runs>>

NextChunk == ChunkCall

SpecChunk == InitChunk /\ [][NextChunk]_vars

----------------------------------------------------------------------------
(* Direct calls of _translate_chunk(chunk, target_lang) *)

Bodies == SeqsUpTo({"a", "SP", "LF"}, MaxBodyLen)
Pads == {<<>>, <<"SP">>, <<"LF">>}
Tags == {<<>>, <<"s", "r", "t">>, <<"p", "y">>}

\* a body in a fenced block, the opening fence carrying the tag
Fenced(pre, tag, body, post) ==
    pre \o Fence \o tag \o <<"LF">> \o body \o Fence \o post

Contents ==
    {Fenced(pre, tag, body, post) :
        pre \in Pads, tag \in Tags, body \in Bodies, post \in Pads}
    \cup {pre \o body \o post : pre \in Pads, body \in Bodies, post \in Pads}
    \cup SeqsUpTo({"BT", "a"}, MaxRawLen)

DriverResponses ==
    {Resp("raise", err, <<>>) : err \in {"APIConnectionError", "RateLimitError"}}
    \cup {Resp(k, "", <<>>) :
             k \in {"no_response", "no_choices", "no_message", "non_str"}}
    \cup {Resp("content", "", c) : c \in Contents}

InitDriver ==
    /\ pc = "driver_call"
    /\ entry = [fn |-> "_translate_chunk", path |-> NoPath, lang |-> "fr"]
    /\ IdleChunker
    /\ max_chars = 1
    /\ files = NoFiles
    /\ style = "plain"
    /\ li = 0
    /\ srt_path = NoPath
    /\ target_lang = "fr"
    /\ FreshFrame
    /\ raised = None
    /\ runs = <<>>
    /\ response = NoResponse

\* one call: one request, whose response decides the outcome; the value
\* returned is kept in translated_chunks, the exception in raised
DriverCall ==
    /\ pc = "driver_call"
    /\ \E r \in DriverResponses :
          LET out == _translate_chunk(r) IN
          /\ response' = r
          /\ trace' = Append(trace, Request(0, IF out.ok THEN "ok" ELSE out.err))
          /\ translated_chunks' = IF out.ok THEN <<out.value>> ELSE <<>>
          /\ raised' = IF out.ok THEN None ELSE out.err
    /\ pc' = "driver_done"
    /\ UNCHANGED <<entry, files, style, max_chars, text, blocks, li, srt_path,
                   target_lang, original_text, chunks, i, e, result, runs>>

NextDriver == DriverCall

SpecDriver == InitDriver /\ [][NextDriver]_vars

----------------------------------------------------------------------------
(* Vocabulary of the properties *)

\* offset in the text at which chunk k ends
ChunkEnd(cs, k) == Len(Flatten(SubSeq(cs, 1, k)))

\* position p of t is the last character of a line of t
IsLineEnd(t, p) ==
    \/ p = Len(t)
    \/ /\ t[p] \in LineBreaks
       /\ ~(t[p] = "CR" /\ t[p + 1] = "LF")

LineEnds(t) == {p \in 1..Len(t) : IsLineEnd(t, p)}

\* first position of the line of t that ends at p
LineStart(t, p) ==
    LET before == {q \in LineEnds(t) : q < p}
    IN IF before = {} THEN 1
       ELSE 1 + CHOOSE q \in before : \A r \in before : r <= q

\* number of lines held by the chunk c
LineCount(c) == Cardinality(LineEnds(c))

\* offsets at which a block of the SRT document ends
BlockEnds(bs) == {Len(SrtDoc(SubSeq(bs, 1, k))) : k \in 0..Len(bs)}

----------------------------------------------------------------------------
(* _chunk_text: properties under SpecChunk *)

\* C1: the chunks concatenate to the input exactly, and every line of the
\* input lies wholly inside exactly one chunk.
C1_ChunksPartitionLines ==
    pc = "chunk_done" =>
        /\ Flatten(chunks) = text
        /\ \A p \in LineEnds(text) :
              Cardinality({k \in 1..Len(chunks) :
                              /\ ChunkEnd(chunks, k - 1) < LineStart(text, p)
                              /\ p <= ChunkEnd(chunks, k)}) = 1

C1_Witness ==
    /\ pc = "chunk_done"
    /\ Len(chunks) >= 2
    /\ \E k \in 1..Len(chunks) : LineCount(chunks[k]) >= 2

\* C2: a chunk longer than the budget consists of exactly one line, and a
\* chunk of two or more lines is at most as long as the budget.
C2_OversizedChunkIsOneLine ==
    pc = "chunk_done" =>
        \A k \in 1..Len(chunks) :
            /\ Len(chunks[k]) > max_chars => LineCount(chunks[k]) = 1
            /\ LineCount(chunks[k]) >= 2 => Len(chunks[k]) <= max_chars

C2_Witness ==
    /\ pc = "chunk_done"
    /\ \E k \in 1..Len(chunks) : Len(chunks[k]) > max_chars
    /\ \E k \in 1..Len(chunks) : LineCount(chunks[k]) >= 2

\* C3: every chunk returned by _chunk_text is non-empty.
C3_ChunksNonEmpty ==
    pc = "chunk_done" => \A k \in 1..Len(chunks) : chunks[k] # <<>>

\* C4: for an SRT document, every boundary between two consecutive chunks
\* is a boundary between two blocks.
C4_BlocksNeverBroken ==
    (pc = "chunk_done" /\ blocks # <<>>) =>
        \A k \in 1..(Len(chunks) - 1) : ChunkEnd(chunks, k) \in BlockEnds(blocks)

----------------------------------------------------------------------------
(* translate and translate_batch: properties under Spec *)

\* positions in the trace of the requests issued for chunk k
Reqs(k) == {j \in 1..Len(trace) : trace[j].ev = "request" /\ trace[j].chunk = k}

Min(S) == CHOOSE x \in S : \A y \in S : x <= y
Max(S) == CHOOSE x \in S : \A y \in S : y <= x

\* what a successful _translate_chunk call returns for chunk k
Expected(k) == Clean(Reply(style, chunks[k]))

\* the translation results of chunks k.., stripped and joined by newlines
RECURSIVE ExpectedDoc(_)
ExpectedDoc(k) ==
    IF k > Len(chunks) THEN <<>>
    ELSE Strip(Expected(k))
         \o (IF k < Len(chunks) THEN <<"LF">> ELSE <<>>)
         \o ExpectedDoc(k + 1)

DocumentedOrder ==
    <<"en", "es-419", "es-ES", "pt-BR", "pt-PT", "fr", "de", "ar", "hi", "bn",
      "ur", "id", "vi", "tr", "zh-Hans", "it", "ja", "ko", "th", "pl", "nl">>

\* the output file of the j-th documented language for the input movie.srt
OutFor(j) == [dir |-> "videos", name |-> <<DocumentedOrder[j], "movie", "srt">>]

\* C5: when the first call for a chunk fails and the second succeeds, the
\* driver was invoked exactly twice for it with the 5-second delay between
\* the two calls, the recorded result is that of the second call, and the
\* run goes on with the next chunk.
C5_RetrySucceeds ==
    \A k \in 1..Len(chunks) :
        LET r == Reqs(k) IN
        (/\ r # {}
         /\ trace[Min(r)].out # "ok"
         /\ \E j \in r : j > Min(r) /\ trace[j].out = "ok")
        => /\ Cardinality(r) = 2
           /\ Max(r) = Min(r) + 2
           /\ trace[Min(r) + 1] = [ev |-> "sleep", chunk |-> k, out |-> "",
                                   tenths |-> 50]
           /\ Len(translated_chunks) >= k
           /\ translated_chunks[k] = Expected(k)
           /\ ~(pc = "raised" /\ i = k)
           /\ Len(trace) > Max(r) + 1 =>
                 \/ trace[Max(r) + 2].ev = "request"
                    /\ trace[Max(r) + 2].chunk = k + 1
                 \/ trace[Max(r) + 2].ev = "write" /\ k = Len(chunks)

C5_Witness ==
    /\ Len(chunks) >= 2
    /\ Reqs(2) # {}
    /\ Cardinality(Reqs(1)) = 2
    /\ trace[Min(Reqs(1))].out # "ok"
    /\ trace[Max(Reqs(1))].out = "ok"

\* C6: no chunk is attempted more than twice; when both attempts fail the
\* run ends by raising the second attempt's error, with no later request
\* and no output file for that language.
C6_SecondFailureAborts ==
    \A k \in 1..Len(chunks) :
        LET r == Reqs(k) IN
        /\ Cardinality(r) <= 2
        /\ (Cardinality(r) = 2 /\ trace[Max(r)].out # "ok")
           => /\ pc = "raised"
              /\ raised = trace[Max(r)].out
              /\ Max(r) = Len(trace)
              /\ result = <<>>
              /\ \A j \in 1..Len(trace) : trace[j].ev # "write"
              /\ OutputPath(srt_path, target_lang) \notin DOMAIN files
              /\ ~ENABLED Next

C6_Witness ==
    /\ pc = "raised"
    /\ i < Len(chunks)
    /\ Cardinality(Reqs(i)) = 2
    /\ trace[Min(Reqs(i))].out = "ValueError"
    /\ trace[Max(Reqs(i))].out = "RemoteCallError"

\* C7: when every chunk succeeded, the output file is written exactly once,
\* after the last chunk, with the results of the chunks in order, stripped
\* and joined by a newline, and translate returns the output path.
C7_OutputDocument ==
    /\ result = <<>> => \A j \in 1..Len(trace) : trace[j].ev # "write"
    /\ result # <<>> =>
          /\ {j \in 1..Len(trace) : trace[j].ev = "write"} = {Len(trace)}
          /\ Len(translated_chunks) = Len(chunks)
          /\ \A k \in 1..Len(chunks) :
                /\ Reqs(k) # {}
                /\ trace[Max(Reqs(k))].out = "ok"
                /\ translated_chunks[k] = Expected(k)
          /\ result = <<OutputPath(srt_path, target_lang)>>
          /\ result[1] \in DOMAIN files
          /\ files[result[1]] = ExpectedDoc(1)

C7_Witness ==
    /\ result # <<>>
    /\ Len(chunks) >= 2
    /\ chunks[1] # chunks[2]
    /\ Strip(Expected(1)) # <<>>
    /\ Strip(Expected(2)) # <<>>
    /\ Cardinality(Reqs(1)) = 2

\* C8: translate_batch runs translate once per language, in the documented
\* order of the 21 codes, and issues requests for a language only after the
\* output files of all earlier languages have been written.
C8_BatchOrder ==
    entry.fn = "translate_batch" =>
        /\ runs = SubSeq(DocumentedOrder, 1, li)
        /\ pc = "done" =>
              /\ runs = DocumentedOrder
              /\ \A j \in 1..21 : OutFor(j) \in DOMAIN files
        /\ (\E j \in 1..Len(trace) : trace[j].ev = "request") =>
              /\ target_lang = DocumentedOrder[li]
              /\ \A j \in 1..(li - 1) : OutFor(j) \in DOMAIN files

C8_Witness ==
    /\ entry.fn = "translate_batch"
    /\ pc = "done"
    /\ Len(runs) = 21
    /\ Cardinality(DOMAIN files) = 22
    /\ Len(chunks) >= 2

\* C9: an unrecovered error in the k-th language halts the batch: nothing
\* runs afterwards, no output exists for the k-th or any later language,
\* and the outputs of the earlier languages are as they were written.
C9_BatchHalts ==
    entry.fn = "translate_batch" =>
        /\ raised # None => pc = "raised" /\ ~ENABLED Next
        /\ pc = "raised" =>
              /\ li >= 1
              /\ Len(runs) = li
              /\ \A j \in li..21 : OutFor(j) \notin DOMAIN files
              /\ \A j \in 1..(li - 1) :
                    /\ OutFor(j) \in DOMAIN files
                    /\ files[OutFor(j)] = ExpectedDoc(1)

C9_Witness ==
    /\ entry.fn = "translate_batch"
    /\ pc = "raised"
    /\ li \in 2..20
    /\ Len(chunks) >= 2

----------------------------------------------------------------------------
(* _translate_chunk: properties under SpecDriver *)

HasSub(s, t) == \E k \in 1..(Len(s) - Len(t) + 1) : SubSeq(s, k, k + Len(t) - 1) = t

\* the response carries no usable text content
NoUsableContent(r) ==
    \/ r.kind \in {"no_response", "no_choices", "no_message", "non_str"}
    \/ r.kind = "content" /\ r.content = <<>>

\* C14: a call issues exactly one request and either returns the cleaned
\* text (response with text content), raises ValueError (no usable text
\* content) or raises the error of the failed request unchanged.
C14_DriverOutcomes ==
    pc = "driver_done" =>
        /\ Cardinality({j \in 1..Len(trace) : trace[j].ev = "request"}) = 1
        /\ (raised = None) # (translated_chunks = <<>>)
        /\ (response.kind = "content" /\ response.content # <<>>) =>
              /\ raised = None
              /\ translated_chunks = <<Clean(response.content)>>
        /\ NoUsableContent(response) => raised = "ValueError"
        /\ response.kind = "raise" => raised = response.error

C14_Witness ==
    /\ pc = "driver_done"
    /\ response.kind = "raise"
    /\ raised = "RateLimitError"
    /\ translated_chunks = <<>>

\* the value returned for a body, bare or in a fence with one of the tags
ReturnsBody(tags) ==
    \A pre \in Pads, body \in Bodies, post \in Pads :
        /\ response.content = pre \o body \o post =>
              translated_chunks = <<Strip(body)>>
        /\ \A tag \in tags :
              response.content = Fenced(pre, tag, body, post) =>
                  translated_chunks = <<Strip(body)>>

Trimmed(s) ==
    s # <<>> => Head(s) \notin Whitespace /\ s[Len(s)] \notin Whitespace

\* C19: the text returned has no outer whitespace and no triple backtick,
\* and is the body of the reply, whatever the tag of the fence around it.
C19_AnyFenceTagRemoved ==
    (pc = "driver_done" /\ raised = None) =>
        /\ Trimmed(translated_chunks[1])
        /\ ~HasSub(translated_chunks[1], Fence)
        /\ ReturnsBody(Tags)

\* C19 (amended): the text returned has no outer whitespace and no triple
\* backtick, and is the body of the reply when the fence around it carries
\* no tag or the tag srt.
C19_SrtFenceRemoved ==
    (pc = "driver_done" /\ raised = None) =>
        /\ Trimmed(translated_chunks[1])
        /\ ~HasSub(translated_chunks[1], Fence)
        /\ ReturnsBody({<<>>, <<"s", "r", "t">>})

C19_Witness ==
    /\ pc = "driver_done"
    /\ response.content = Fenced(<<"SP">>, <<"s", "r", "t">>, <<"a", "LF">>, <<"LF">>)
    /\ translated_chunks = << <<"a">> >>

----------------------------------------------------------------------------
(* _chunk_text: greedy filling, under SpecChunk *)

\* the first line of a non-empty chunk
FirstLine(c) == SubSeq(c, 1, Min(LineEnds(c)))

\* C16: a chunk is closed only when the next line would not fit, so a
\* non-empty text within the budget comes back as one chunk, the text.
C16_GreedyFilling ==
    pc = "chunk_done" =>
        /\ \A k \in 1..(Len(chunks) - 1) :
              Len(chunks[k]) + Len(FirstLine(chunks[k + 1])) > max_chars
        /\ (text # <<>> /\ Len(text) <= max_chars) => chunks = <<text>>

C16_Witness ==
    /\ pc = "chunk_done"
    /\ Len(chunks) >= 3
    /\ \E k \in 1..Len(chunks) : LineCount(chunks[k]) >= 2
    /\ \E k \in 1..Len(chunks) : Len(chunks[k]) = max_chars

----------------------------------------------------------------------------
(* translate: pacing and the empty document, under Spec *)

\* C13: every successful request is followed by the 0.5-second delay before
\* anything else happens, exactly that one delay separates the last request
\* for a chunk from the first request for the next, and no two requests
\* are adjacent.
C13_Pacing ==
    /\ \A j \in 1..(Len(trace) - 1) :
          trace[j].ev = "request" =>
              /\ trace[j + 1].ev = "sleep"
              /\ trace[j].out = "ok" =>
                    trace[j + 1] = [ev |-> "sleep", chunk |-> trace[j].chunk,
                                    out |-> "", tenths |-> 5]
    /\ \A k \in 1..(Len(chunks) - 1) :
          (Reqs(k) # {} /\ Reqs(k + 1) # {}) =>
              /\ Min(Reqs(k + 1)) = Max(Reqs(k)) + 2
              /\ trace[Max(Reqs(k)) + 1].tenths = 5

C13_Witness ==
    /\ Len(chunks) >= 2
    /\ Cardinality(Reqs(1)) = 2
    /\ Reqs(2) # {}
    /\ trace[Max(Reqs(1))].out = "ok"

\* C18: for an existing empty input file there are no chunks, no request
\* and no delay, and translate writes an empty output document to the
\* output path and returns that path.
C18_EmptyInput ==
    (/\ runs # <<>>
     /\ pc # "translate"
     /\ srt_path \in DOMAIN files
     /\ files[srt_path] = <<>>
     /\ target_lang # None
     /\ target_lang # "")
    => /\ chunks = <<>>
       /\ raised = None
       /\ \A j \in 1..Len(trace) : trace[j].ev \notin {"request", "sleep"}
       /\ \/ pc = "for_chunk" /\ result = <<>>
          \/ /\ result = <<OutputPath(srt_path, target_lang)>>
             /\ result[1] \in DOMAIN files
             /\ files[result[1]] = <<>>
             /\ Cardinality({j \in 1..Len(trace) : trace[j].ev = "write"}) = 1

C18_Witness ==
    /\ pc = "returned"
    /\ files[srt_path] = <<>>
    /\ result # <<>>
    /\ files[result[1]] = <<>>

----------------------------------------------------------------------------
(* translate: the output path and the files left alone, under Spec *)

\* <language code>.<base name without extension>.srt for the input names
NamedOutput(name, lang) ==
    CASE name = <<"movie", "srt">> -> <<lang, "movie", "srt">>
      [] name = <<"movie">> -> <<lang, "movie", "srt">>
      [] name = <<"my", "movie", "vtt">> -> <<lang, "my", "movie", "srt">>

C17_FilesLeftAlone ==
    /\ [](/\ Cardinality({OutputPath(InputPath, all_langs[j]) : j \in 1..21}
                          \cup {InputPath}) = 22
          /\ (\E j \in 1..Len(trace) : trace[j].ev = "read") =>
                original_text = UniversalNewlines(files[entry.path]))
    /\ [][\A p \in DOMAIN files :
             p \in DOMAIN files' /\ files'[p] = files[p]]_vars

C17_Witness ==
    /\ entry.fn = "translate_batch"
    /\ pc = "done"
    /\ Cardinality(DOMAIN files) = 22
    /\ files[InputPath] # <<>>
    /\ files[InputPath] # files[OutFor(21)]

----------------------------------------------------------------------------
(* The command line, under SpecMain *)

\* C11: without a language code the full batch of 21 languages runs; with
\* a language code, translate runs for that code only.
C11_OptionalLanguage ==
    (entry.fn = "main" /\ entry.path # NoPath) =>
        /\ entry.lang = None =>
              /\ runs = SubSeq(DocumentedOrder, 1, li)
              /\ pc = "done" => runs = DocumentedOrder
        /\ entry.lang # None =>
              /\ Len(runs) <= 1
              /\ \A k \in 1..Len(runs) : runs[k] = entry.lang

----------------------------------------------------------------------------
(* Termination, under FairSpec *)

Terminated == pc \in {"done", "raised", "returned"}

AllRequests == {j \in 1..Len(trace) : trace[j].ev = "request"}

\* both attempts for chunk k failed
FailedTwice(k) ==
    /\ k \in 1..Len(chunks)
    /\ Cardinality(Reqs(k)) = 2
    /\ \A j \in Reqs(k) : trace[j].out # "ok"

\* all 21 languages completed
BatchCompleted ==
    /\ pc = "done"
    /\ li = 21
    /\ \A j \in 1..21 : OutFor(j) \in DOMAIN files

\* halted at language li, the first in which a chunk failed twice
BatchHaltedByChunk ==
    /\ pc = "raised"
    /\ FailedTwice(i)
    /\ \A j \in 1..(li - 1) : OutFor(j) \in DOMAIN files
    /\ \A j \in li..21 : OutFor(j) \notin DOMAIN files

\* halted at the first language: the input file does not exist
BatchHaltedByMissingFile ==
    /\ pc = "raised"
    /\ raised = "FileNotFoundError"
    /\ li = 1
    /\ trace = <<>>
    /\ DOMAIN files = {}

====
